---------------------------- MODULE Spec2Model ----------------------------
(***************************************************************************)
(* Model of the OWASP Dependency Check pipeline tasks:                     *)
(*   - the data task      (src/unnamed/part_000)                           *)
(*   - the install task   (src/src/Tasks/dependency-check-data-task/       *)
(*                         dependency-check-data-task.ts, lines 1-222)     *)
(*   - DependencyCheckOptionsBuilder / DependencyCheckOptions              *)
(*                                                                         *)
(* Strings are sequences of one-character strings, URLs and paths are      *)
(* sequences of tokens, so that trimming, case folding, pattern matching   *)
(* and concatenation are computed and not assumed.                         *)
(***************************************************************************)
EXTENDS Integers, Sequences, FiniteSets, TLC

VARIABLES
    call,       \* SpecVersion, SpecResolve: a call of one function, its
                \* argument, whether it has returned, and its result
    builder,    \* SpecBuilder: the fields of a DependencyCheckOptionsBuilder
    built,      \* SpecBuilder: the DependencyCheckOptions of the last build()
    lastCall,   \* SpecBuilder: the method of the builder called last
    inp,        \* Spec: the task variant and the raw task inputs of the run
    pc,         \* Spec: the position of run()
    loc,        \* Spec: the local variables of run() and of the functions it calls
    fs,         \* Spec: the file system, path -> "dir" or the content of a file
    fs0,        \* Spec: the file system before the run
    net,        \* Spec: the requests made and the release information received
    tool,       \* Spec: the invocations of the Dependency Check script
    task,       \* Spec: the task result set with tl.setResult
    err,        \* Spec: the message of the error a step has thrown, or NoError
    steps       \* Spec: the steps of run() entered so far, in order

callVars == <<call>>
builderVars == <<builder, built, lastCall>>
runVars == <<inp, pc, loc, fs, fs0, net, tool, task, err, steps>>
vars == <<call, builder, built, lastCall,
          inp, pc, loc, fs, fs0, net, tool, task, err, steps>>

-----------------------------------------------------------------------------
(* Bounds of the model *)

\* longest enumerated version string
MaxVersionLen == 5
\* most assets in a release-metadata response
MaxAssets == 2

-----------------------------------------------------------------------------
(* Strings *)

RECURSIVE SeqsUpTo(_, _)
\* all sequences over S of length at most n
SeqsUpTo(S, n) ==
    IF n = 0 THEN {<<>>}
    ELSE LET shorter == SeqsUpTo(S, n - 1)
         IN  shorter \cup {Append(s, c) : s \in shorter, c \in S}

\* String.prototype.toLowerCase on one character
LowerChar(c) ==
    CASE c = "L" -> "l" [] c = "A" -> "a" [] c = "T" -> "t" [] c = "E" -> "e"
      [] c = "S" -> "s" [] c = "D" -> "d" [] c = "V" -> "v" [] c = "X" -> "x"
      [] OTHER -> c

toLowerCase(s) == [i \in 1..Len(s) |-> LowerChar(s[i])]

IsWhiteSpace(c) == c \in {" ", "\t", "\n"}

RECURSIVE TrimStart(_)
TrimStart(s) ==
    IF s # <<>> /\ IsWhiteSpace(Head(s)) THEN TrimStart(Tail(s)) ELSE s

RECURSIVE TrimEnd(_)
TrimEnd(s) ==
    IF s # <<>> /\ IsWhiteSpace(s[Len(s)]) THEN TrimEnd(SubSeq(s, 1, Len(s) - 1)) ELSE s

\* String.prototype.trim
trim(s) == TrimEnd(TrimStart(s))

-----------------------------------------------------------------------------
(* isVersionFormatValid: the pattern is a template literal handed to RegExp *)

DependencyCheckVersionLatest == <<"l", "a", "t", "e", "s", "t">>

\* The source text between the backticks, with ${...} already substituted.
VersionPatternSource ==
    <<"^", "(", "\\", "d", "\\", ".", "\\", "d", "\\", ".", "\\", "d", "|">>
        \o DependencyCheckVersionLatest \o <<")", "$">>

\* Characters that form an escape sequence after a backslash in a template
\* literal; a backslash before any other character is dropped (the cooked
\* value of `\d` is "d", of `\.` is ".").
TemplateEscapeChars == {"\\", "n", "t", "r", "b", "f", "v", "0", "x", "u", "'", "\""}

RECURSIVE CookTemplate(_)
\* Template literal raw text -> the string value (cooked).
CookTemplate(raw) ==
    IF raw = <<>> THEN <<>>
    ELSE IF Head(raw) = "\\" /\ Len(raw) >= 2
         THEN IF raw[2] \in TemplateEscapeChars
              THEN <<"\\", raw[2]>> \o CookTemplate(SubSeq(raw, 3, Len(raw)))
              ELSE <<raw[2]>> \o CookTemplate(SubSeq(raw, 3, Len(raw)))
         ELSE <<Head(raw)>> \o CookTemplate(Tail(raw))

\* the string value of versionPattern
versionPattern == CookTemplate(VersionPatternSource)

RECURSIVE CompileAtoms(_)
\* A regular expression without operators, as a sequence of atoms:
\* "." is any character but a line terminator, \d a decimal digit,
\* \c the character c, and any other character itself.
CompileAtoms(p) ==
    IF p = <<>> THEN <<>>
    ELSE IF Head(p) = "\\" /\ Len(p) >= 2
         THEN <<IF p[2] = "d" THEN [kind |-> "digit", ch |-> ""]
                              ELSE [kind |-> "lit", ch |-> p[2]]>>
                  \o CompileAtoms(SubSeq(p, 3, Len(p)))
         ELSE <<IF Head(p) = "." THEN [kind |-> "any", ch |-> ""]
                                 ELSE [kind |-> "lit", ch |-> Head(p)]>>
                  \o CompileAtoms(Tail(p))

RECURSIVE SplitAlternatives(_, _)
\* p split at each unescaped "|"; cur is the alternative collected so far
SplitAlternatives(p, cur) ==
    IF p = <<>> THEN {cur}
    ELSE IF Head(p) = "\\" /\ Len(p) >= 2
         THEN SplitAlternatives(SubSeq(p, 3, Len(p)), cur \o <<p[1], p[2]>>)
         ELSE IF Head(p) = "|"
              THEN {cur} \cup SplitAlternatives(Tail(p), <<>>)
              ELSE SplitAlternatives(Tail(p), Append(cur, Head(p)))

\* The alternatives of a pattern of the shape ^( ... | ... )$, compiled.
CompilePattern(p) ==
    {CompileAtoms(a) : a \in SplitAlternatives(SubSeq(p, 3, Len(p) - 2), <<>>)}

Digits == {"0", "1", "2", "3", "4", "5", "6", "7", "8", "9"}

\* one atom against one character under the i flag
AtomMatches(atom, c) ==
    CASE atom.kind = "any"   -> c \notin {"\n", "\r"}
      [] atom.kind = "digit" -> c \in Digits
      [] OTHER               -> LowerChar(atom.ch) = LowerChar(c)

\* RegExp.prototype.test of a fresh /^(...)$/gi object: lastIndex is 0, the
\* anchors make the whole string match one alternative.
RegexTest(alternatives, s) ==
    \E alt \in alternatives :
        /\ Len(alt) = Len(s)
        /\ \A i \in 1..Len(s) : AtomMatches(alt[i], s[i])

isVersionFormatValid(version) == RegexTest(CompilePattern(versionPattern), version)

-----------------------------------------------------------------------------
(* The version strings isVersionFormatValid is applied to *)

VersionAlphabet == {"1", ".", "d"}

NamedVersions ==
    { <<"1", ".", "2", ".", "3">>,
      <<"1", "0", ".", "2", ".", "3">>,
      <<"v", "1", ".", "2", ".", "3">>,
      <<"l", "a", "t", "e", "s", "t">>,
      <<"L", "A", "T", "E", "S", "T">>,
      <<"L", "a", "t", "e", "s", "t">>,
      <<"l", "a", "t", "e", "s", "t", "s">>,
      <<"d", "\n", "d", ".", "d">>,
      <<"D", "x", "d", "-", "D">> }

VersionInputs == SeqsUpTo(VersionAlphabet, MaxVersionLen) \cup NamedVersions

-----------------------------------------------------------------------------
(* Paths: sequences of segments below the file system root.  A path input   *)
(* may carry white space tokens at its ends; the empty sequence stands for  *)
(* an input that is not given (undefined or "").                            *)

SourcesDirectory == <<"s">>           \* Build.SourcesDirectory
ArtifactDirectory == <<"a">>          \* Build.ArtifactStagingDirectory
DependencyCheckFolderName == "dependency-check"
LogFileName == "dependency-check-log.txt"

\* tl.resolve(base, segment, ...) for relative segments
resolve(base, segments) == base \o segments

-----------------------------------------------------------------------------
(* DependencyCheckOptionsBuilder and DependencyCheckOptions *)

defaultRootFolder == ArtifactDirectory
defaultExportDirectory == resolve(defaultRootFolder, <<DependencyCheckFolderName>>)
defaultLogFilePath ==
    resolve(defaultExportDirectory, <<DependencyCheckFolderName, LogFileName>>)

\* new DependencyCheckOptionsBuilder()
NewBuilder ==
    [ exportDirectory     |-> defaultExportDirectory,
      isVerboseEnabled    |-> FALSE,
      isUpdateOnlyEnabled |-> FALSE,
      logFilePath         |-> defaultLogFilePath ]

setExportDirectory(b, value) ==
    [b EXCEPT !.exportDirectory =
        IF trim(value) # <<>> THEN trim(value) ELSE defaultExportDirectory]

setIsVerboseEnabled(b, value) == [b EXCEPT !.isVerboseEnabled = value]

setIsUpdateOnlyEnabled(b, value) == [b EXCEPT !.isUpdateOnlyEnabled = value]

setLogFilePath(b, value) == [b EXCEPT !.logFilePath = value]

\* new DependencyCheckOptions(builder), which is what build() returns
DependencyCheckOptions(b) ==
    [ exportDirectory     |-> b.exportDirectory,
      isUpdateOnlyEnabled |-> b.isVerboseEnabled,
      isVerboseEnabled    |-> b.isVerboseEnabled,
      logFilePath         |-> b.logFilePath ]

build(b) == DependencyCheckOptions(b)

CliUpdateOnly == "--updateonly"
CliLogFile == "--log"
CliVersion == "--version"

getExecutableArguments(o) ==
    IF o.isVerboseEnabled THEN <<CliUpdateOnly, CliLogFile, o.logFilePath>>
    ELSE <<CliUpdateOnly>>

-----------------------------------------------------------------------------
(* The file system and the azure-pipelines-task-lib calls on it *)

\* process.cwd(), which tl.resolve('.') and tl.resolve('./') return: the
\* agent starts the task in the sources directory.
WorkingDirectory == SourcesDirectory

IsPrefix(p, q) == Len(p) <= Len(q) /\ SubSeq(q, 1, Len(p)) = p

Prefixes(p) == {SubSeq(p, 1, k) : k \in 1..Len(p)}

\* tl.exist
exist(f, p) == p \in DOMAIN f

\* tl.mkdirP: the directory and its missing ancestors
mkdirP(f, p) ==
    [q \in DOMAIN f \cup Prefixes(p) |-> IF q \in DOMAIN f THEN f[q] ELSE "dir"]

\* tl.rmRF: the path and everything below it
rmRF(f, p) == [q \in {r \in DOMAIN f : ~IsPrefix(p, r)} |-> f[q]]

\* the paths of todo removed one after another with tl.rmRF
rmRFAll(f, todo) ==
    [q \in {r \in DOMAIN f : \A p \in todo : ~IsPrefix(p, r)} |-> f[q]]

\* a file written (created or overwritten) below existing directories
writeFile(f, p, content) ==
    [q \in DOMAIN f \cup Prefixes(p) |->
        IF q = p THEN content ELSE IF q \in DOMAIN f THEN f[q] ELSE "dir"]

RECURSIVE GlobMatch(_, _)
\* minimatch of a rooted pattern (its segments) against a path relative to
\* the root, dot files included: "**" spans segments, a trailing "**" needs
\* at least one, "*" is one segment.
GlobMatch(segs, rel) ==
    IF segs = <<>> THEN rel = <<>>
    ELSE IF Head(segs) = "**"
         THEN IF Tail(segs) = <<>> THEN rel # <<>>
              ELSE \E k \in 0..Len(rel) :
                       GlobMatch(Tail(segs), SubSeq(rel, k + 1, Len(rel)))
         ELSE /\ rel # <<>>
              /\ Head(segs) = "*" \/ Head(segs) = Head(rel)
              /\ GlobMatch(Tail(segs), Tail(rel))

\* the paths below root (root included) that tl.find returns
find(f, root) == {q \in DOMAIN f : IsPrefix(root, q)}

RelativeTo(root, q) == SubSeq(q, Len(root) + 1, Len(q))

RECURSIVE findMatchFrom(_, _, _, _)
\* tl.findMatch: the patterns are applied in order, an include pattern adds
\* its matches to the result, an exclude pattern ("!...") removes its matches
findMatchFrom(f, root, patterns, result) ==
    IF patterns = <<>> THEN result
    ELSE LET pat == Head(patterns)
             hits == {q \in find(f, root) : GlobMatch(pat.segs, RelativeTo(root, q))}
         IN  findMatchFrom(f, root, Tail(patterns),
                 IF pat.negate THEN result \ hits ELSE result \cup hits)

findMatch(f, root, patterns) == findMatchFrom(f, root, patterns, {})

\* ['**']: the exclude patterns left out
CleanPatternsAll == << [negate |-> FALSE, segs |-> <<"**">>] >>

\* ['**', '!data', '!data/**']
CleanPatterns ==
    << [negate |-> FALSE, segs |-> <<"**">>],
       [negate |-> TRUE,  segs |-> <<"data">>],
       [negate |-> TRUE,  segs |-> <<"data", "**">>] >>

\* cleanDirectory(path, patterns)
cleanDirectory(f, path, patterns) == rmRFAll(f, findMatch(f, path, patterns))

\* the file names that '*.lock' matches
LockFileNames == {"odc.update.lock", "write.lock"}

\* tl.findMatch(dir, '*.lock', undefined, { matchBase: true })
findLockFiles(f, dir) ==
    {q \in find(f, dir) : q # dir /\ q[Len(q)] \in LockFileNames}

\* zipFile.extractAllTo(targetPath, true): every entry written, overwriting
extractAllTo(f, targetPath, entries) ==
    LET written == {resolve(targetPath, e) : e \in entries}
        dirs == UNION {Prefixes(w) \ {w} : w \in written}
    IN  [q \in DOMAIN f \cup written \cup dirs |->
            IF q \in written THEN "new"
            ELSE IF q \in DOMAIN f THEN f[q] ELSE "dir"]

-----------------------------------------------------------------------------
(* The environment of a run *)

InstallDirectory == resolve(WorkingDirectory, <<DependencyCheckFolderName>>)

BaseFileSystem ==
    [q \in {SourcesDirectory, ArtifactDirectory, <<"o">>, <<"o", "bin">>,
            <<"o", "bin", "dependency-check.sh">>} |->
        IF q = <<"o", "bin", "dependency-check.sh">> THEN "old" ELSE "dir"]

PriorInstallationDirs ==
    { InstallDirectory,
      resolve(InstallDirectory, <<"bin">>),
      resolve(InstallDirectory, <<"lib">>),
      resolve(InstallDirectory, <<"lib", "data">>),
      resolve(InstallDirectory, <<"data">>),
      resolve(InstallDirectory, <<"data", "cache">>) }

PriorInstallationFiles ==
    { resolve(InstallDirectory, <<"bin", "dependency-check.sh">>),
      resolve(InstallDirectory, <<"bin", "dependency-check.bat">>),
      resolve(InstallDirectory, <<"lib", "data", "schema.sql">>),
      resolve(InstallDirectory, <<"write.lock">>),
      resolve(InstallDirectory, <<"data", "odc.mv.db">>),
      resolve(InstallDirectory, <<"data", "odc.update.lock">>),
      resolve(InstallDirectory, <<"data", "cache", "entry">>) }

\* an agent that has run the task before: the installation and the staging
\* folder of that run are there
PriorFileSystem ==
    [q \in DOMAIN BaseFileSystem \cup PriorInstallationDirs \cup PriorInstallationFiles
            \cup Prefixes(defaultExportDirectory) |->
        IF q \in DOMAIN BaseFileSystem THEN BaseFileSystem[q]
        ELSE IF q \in PriorInstallationFiles THEN "old" ELSE "dir"]

InitialFileSystems == {BaseFileSystem, PriorFileSystem}

\* the entries of the archives a download can deliver, relative to the
\* extraction target
ReleaseArchive ==
    { <<DependencyCheckFolderName, "bin", "dependency-check.sh">>,
      <<DependencyCheckFolderName, "bin", "dependency-check.bat">>,
      <<DependencyCheckFolderName, "lib", "core.jar">> }

Archives == {ReleaseArchive}

ReleaseApi == <<"https://api.github.com/repos/jeremylong/DependencyCheck/releases">>

ZipContentType == "application/zip"

AssetUrlX == <<"https://", "github.com", "/", "dependency-check-release.zip">>
AssetUrlY == <<"https://", "github.com", "/", "dependency-check-ant.zip">>
AssetUrlZ == <<"https://", "github.com", "/", "dependency-check-release.tar.gz">>

\* the assets of a release: two archives of type zip and one of another type
Assets ==
    { [content_type |-> ZipContentType, browser_download_url |-> AssetUrlX],
      [content_type |-> ZipContentType, browser_download_url |-> AssetUrlY],
      [content_type |-> "application/gzip", browser_download_url |-> AssetUrlZ] }

\* the asset lists a release-metadata response can carry
AssetLists == SeqsUpTo(Assets, MaxAssets)

\* raw values of the customRepoUrl input
CustomRepoUrls ==
    { <<>>,
      <<" ">>,
      <<" ", "https://", "mirror", "/", "dc.zip", " ">>,
      <<"mirror", "/", "dc.zip">> }

\* raw values of the dependencyCheckVersion input
RunVersions ==
    { <<>>,
      <<"L", "a", "t", "e", "s", "t">>,
      <<"1", ".", "2", ".", "3">>,
      <<" ", "d", ".", "d", ".", "d">> }

\* raw values of the localInstallPath input: not set, an installation, nothing there
InstallPathInputs == {SourcesDirectory, <<"o">>, <<"m">>}

\* raw values of the logDirectory and exportDirectory inputs
LogDirectoryInputs == {SourcesDirectory, <<" ", "l", " ">>}
ExportDirectoryInputs == {SourcesDirectory, <<"e">>}

Variants == {"data", "install"}

RunInputs ==
    { i \in [ variant : Variants,
              dependencyCheckVersion : RunVersions,
              customRepoUrl : CustomRepoUrls,
              localInstallPath : InstallPathInputs,
              logDirectory : LogDirectoryInputs,
              exportDirectory : ExportDirectoryInputs,
              enableVerbose : BOOLEAN ] :
        \* the install task reads neither directory input nor enableVerbose
        i.variant = "install" =>
            /\ i.logDirectory = SourcesDirectory
            /\ i.exportDirectory = SourcesDirectory
            /\ i.enableVerbose = FALSE }

-----------------------------------------------------------------------------
(* getDependencyCheckDownloadUrl and downloadPackage: the computed parts *)

\* the release-metadata URL queried for a version
ReleaseUrl(version) ==
    IF toLowerCase(version) = DependencyCheckVersionLatest
    THEN ReleaseApi \o <<"/">> \o DependencyCheckVersionLatest
    ELSE ReleaseApi \o <<"/tags/v">> \o version

IsZipAsset(asset) == asset.content_type = ZipContentType

\* the last asset that satisfies the predicate in the place of the first
FindLastZipAsset(assets) ==
    IF \E i \in 1..Len(assets) : IsZipAsset(assets[i])
    THEN CHOOSE i \in 1..Len(assets) :
             /\ IsZipAsset(assets[i])
             /\ \A j \in (i + 1)..Len(assets) : ~IsZipAsset(assets[j])
    ELSE 0

\* releaseInfo['assets'].find(...): the index of the first asset that
\* satisfies the predicate, 0 for undefined
FindZipAsset(assets) ==
    IF \E i \in 1..Len(assets) : IsZipAsset(assets[i])
    THEN CHOOSE i \in 1..Len(assets) :
             /\ IsZipAsset(assets[i])
             /\ \A j \in 1..(i - 1) : ~IsZipAsset(assets[j])
    ELSE 0

NoError == "none"

\* what the release API can answer: the request fails, a body without an
\* asset list (the answer for an unknown tag), a release with its assets
Responses ==
    { [kind |-> "error", assets |-> <<>>], [kind |-> "noAssets", assets |-> <<>>] }
        \cup {[kind |-> "release", assets |-> a] : a \in AssetLists}

\* getDependencyCheckDownloadUrl(version) under a response of the release
\* API: the URL requested, the error thrown (or NoError) and the URL returned
getDependencyCheckDownloadUrl(version, response) ==
    LET url == ReleaseUrl(version)
        asset == FindZipAsset(response.assets)
    IN  CASE response.kind = "error" ->
                 [request |-> url, threw |-> "request failed", packageUrl |-> <<>>]
          [] response.kind = "noAssets" ->
                 [request |-> url, packageUrl |-> <<>>,
                  threw |-> "Cannot read properties of undefined (reading 'find')"]
          [] asset = 0 ->
                 [request |-> url, packageUrl |-> <<>>,
                  threw |-> "Cannot read properties of undefined (reading 'browser_download_url')"]
          [] OTHER ->
                 [request |-> url, threw |-> NoError,
                  packageUrl |-> response.assets[asset].browser_download_url]

\* new URL(url) accepts a string that starts with a scheme
IsValidUrl(url) == url # <<>> /\ Head(url) = "https://"

\* path.basename(new URL(url).pathname)
UrlBaseName(url) == url[Len(url)]

\* downloadErrorRetries of downloadPackage
DownloadErrorRetries == 5

\* the loop test with > in the place of >=: one attempt less
RetryDownloadOffByOne(tmpError, retries) == tmpError # "null" /\ retries > 0

\* while (tmpError !== null && downloadErrorRetries >= 0)
RetryDownload(tmpError, retries) == tmpError # "null" /\ retries >= 0

-----------------------------------------------------------------------------
(* run(): one action for each step *)

NoOptions ==
    [ exportDirectory |-> <<>>, isUpdateOnlyEnabled |-> FALSE,
      isVerboseEnabled |-> FALSE, logFilePath |-> <<>> ]

InitialLocals ==
    [ customRepoUrl |-> <<>>, dependencyCheckVersion |-> <<>>,
      enableVerbose |-> FALSE, localInstallPath |-> <<>>,
      logDirectory |-> <<>>, exportDirectory |-> <<>>,
      hasLocalInstallation |-> TRUE, options |-> NoOptions,
      installZipUrl |-> <<>>, installPackage |-> <<>>,
      downloadErrorRetries |-> DownloadErrorRetries, tmpError |-> "null",
      extractFailed |-> FALSE, scriptPath |-> <<>>, args |-> <<>> ]

InitialNet ==
    [ metadataRequests |-> <<>>, downloadRequests |-> <<>>,
      lastDownloadError |-> "null" ]

InitialTask == [ result |-> "none", message |-> NoError, setResultCalls |-> 0 ]

IdleCall == call = [fn |-> "none", arg |-> <<>>, done |-> FALSE, result |-> FALSE]

IdleBuilder ==
    /\ builder = NewBuilder
    /\ built = DependencyCheckOptions(NewBuilder)
    /\ lastCall = "new"

IdleRun ==
    /\ inp = CHOOSE i \in RunInputs : TRUE
    /\ pc = "idle"
    /\ loc = InitialLocals
    /\ fs = BaseFileSystem
    /\ fs0 = BaseFileSystem
    /\ net = InitialNet
    /\ tool = <<>>
    /\ task = InitialTask
    /\ err = NoError
    /\ steps = <<>>

Init ==
    /\ inp \in RunInputs
    /\ pc = "start"
    /\ loc = InitialLocals
    /\ fs0 \in InitialFileSystems
    /\ fs = fs0
    /\ net = InitialNet
    /\ tool = <<>>
    /\ task = InitialTask
    /\ err = NoError
    /\ steps = <<>>
    /\ IdleCall
    /\ IdleBuilder

Others == UNCHANGED <<callVars, builderVars, inp, fs0>>

\* cleanDirectory put off until the package has been downloaded
RunSequenceDownloadFirst == <<"installDirectory", "resolveUrl", "download", "clean">>

\* cleanDirectory moved before the download URL is determined
RunSequencePruneFirst == <<"installDirectory", "clean", "resolveUrl", "download">>

\* The statements of the branch taken when localInstallPath is not set, in
\* the order of the source: the install directory, the download URL,
\* cleanDirectory, unzipFromUrl.
RunSequence == <<"installDirectory", "resolveUrl", "clean", "download">>

StepAfter(step) ==
    RunSequence[1 + CHOOSE k \in 1..Len(RunSequence) : RunSequence[k] = step]

\* the branch on customRepoUrl left out
IgnoresCustomRepoUrl(customRepoUrl) == FALSE

\* if (customRepoUrl)
UsesCustomRepoUrl(customRepoUrl) == customRepoUrl # <<>>

\* a throw outside the try block: the run ends and nothing is set
ThrowUncaught(message) == pc' = "end" /\ err' = message

\* a step throws: control passes to the catch block of run()
Throw(message) == pc' = "catch" /\ err' = message

Enter(step) == steps' = Append(steps, step)

\* the input reads at the head of the try block
ReadInputs ==
    /\ pc = "start"
    /\ loc' = [loc EXCEPT
                 !.customRepoUrl = trim(inp.customRepoUrl),
                 !.dependencyCheckVersion =
                     trim(IF inp.dependencyCheckVersion # <<>>
                          THEN inp.dependencyCheckVersion
                          ELSE DependencyCheckVersionLatest),
                 !.enableVerbose = inp.enableVerbose,
                 !.localInstallPath = trim(inp.localInstallPath),
                 !.logDirectory = trim(inp.logDirectory),
                 !.exportDirectory = trim(inp.exportDirectory)]
    /\ pc' = IF inp.variant = "data" THEN "logDirectory" ELSE "validate"
    /\ UNCHANGED <<fs, net, tool, task, err, steps>>
    /\ Others

\* the comparison with the sources directory left out
DirectoryAsGiven(dir) == dir

\* a directory input equal to the sources directory is not set
DefaultedDirectory(dir) ==
    IF dir = SourcesDirectory
    THEN resolve(ArtifactDirectory, <<DependencyCheckFolderName>>)
    ELSE dir

\* data task: set and create the log directory; mkdirP throws when the
\* agent may not create it
SetLogDirectory ==
    /\ pc = "logDirectory"
    /\ Enter("logDirectory")
    /\ LET dir == DefaultedDirectory(loc.logDirectory) IN
        /\ loc' = [loc EXCEPT !.logDirectory = dir]
        /\ IF exist(fs, dir)
           THEN pc' = "exportDirectory" /\ UNCHANGED <<fs, err>>
           ELSE \E denied \in BOOLEAN :
                    IF denied
                    THEN Throw("mkdirP failed") /\ UNCHANGED fs
                    ELSE /\ fs' = mkdirP(fs, dir)
                         /\ pc' = "exportDirectory"
                         /\ UNCHANGED err
    /\ UNCHANGED <<net, tool, task>>
    /\ Others

\* data task: set and create the export directory
SetExportDirectory ==
    /\ pc = "exportDirectory"
    /\ Enter("exportDirectory")
    /\ LET dir == DefaultedDirectory(loc.exportDirectory) IN
        /\ loc' = [loc EXCEPT !.exportDirectory = dir]
        /\ IF exist(fs, dir)
           THEN pc' = "options" /\ UNCHANGED <<fs, err>>
           ELSE \E denied \in BOOLEAN :
                    IF denied
                    THEN Throw("mkdirP failed") /\ UNCHANGED fs
                    ELSE /\ fs' = mkdirP(fs, dir)
                         /\ pc' = "options"
                         /\ UNCHANGED err
    /\ UNCHANGED <<net, tool, task>>
    /\ Others

\* data task: the log file and the options built from the inputs
BuildOptions ==
    /\ pc = "options"
    /\ Enter("options")
    /\ LET logFile == resolve(loc.logDirectory, <<LogFileName>>) IN
        loc' = [loc EXCEPT !.options =
                   build(setLogFilePath(
                           setIsVerboseEnabled(
                             setIsUpdateOnlyEnabled(
                               setExportDirectory(NewBuilder, loc.exportDirectory),
                               TRUE),
                             loc.enableVerbose),
                           logFile))]
    /\ pc' = "validate"
    /\ UNCHANGED <<fs, net, tool, task, err>>
    /\ Others

\* both tasks: the version check, then the branch on localInstallPath
ValidateVersion ==
    /\ pc = "validate"
    /\ Enter("validate")
    /\ IF ~isVersionFormatValid(loc.dependencyCheckVersion)
       THEN Throw("Invalid Dependency Check version format")
       ELSE /\ UNCHANGED err
            /\ pc' = IF loc.localInstallPath = SourcesDirectory THEN "installDirectory"
                     ELSE IF inp.variant = "data" /\ loc.localInstallPath # <<>>
                          THEN "checkLocal"
                          ELSE "end"
    /\ UNCHANGED <<loc, fs, net, tool, task>>
    /\ Others

\* data task: tl.mkdirP('./dependency-check')
CreateInstallDirectory ==
    /\ pc = "installDirectory"
    /\ inp.variant = "data"
    /\ Enter("installDirectory")
    /\ loc' = [loc EXCEPT !.hasLocalInstallation = FALSE,
                          !.localInstallPath =
                              resolve(WorkingDirectory, <<DependencyCheckFolderName>>)]
    /\ IF exist(fs, loc'.localInstallPath)
       THEN pc' = StepAfter("installDirectory") /\ UNCHANGED <<fs, err>>
       ELSE \E denied \in BOOLEAN :
                IF denied
                THEN Throw("mkdirP failed") /\ UNCHANGED fs
                ELSE /\ fs' = mkdirP(fs, loc'.localInstallPath)
                     /\ pc' = StepAfter("installDirectory")
                     /\ UNCHANGED err
    /\ UNCHANGED <<net, tool, task>>
    /\ Others

\* tl.checkPath: throws when the path does not exist
checkPath(f, p) == exist(f, p)

\* install task: tl.checkPath('./dependency-check')
CheckInstallDirectory ==
    /\ pc = "installDirectory"
    /\ inp.variant = "install"
    /\ Enter("installDirectory")
    /\ loc' = [loc EXCEPT !.localInstallPath =
                              resolve(WorkingDirectory, <<DependencyCheckFolderName>>)]
    /\ IF checkPath(fs, loc'.localInstallPath)
       THEN pc' = StepAfter("installDirectory") /\ UNCHANGED err
       ELSE Throw("Not found Dependency Check installer")
    /\ UNCHANGED <<fs, net, tool, task>>
    /\ Others

\* data task: a given localInstallPath must exist
CheckLocalInstallation ==
    /\ pc = "checkLocal"
    /\ Enter("checkLocal")
    /\ IF checkPath(fs, loc.localInstallPath)
       THEN pc' = "end" /\ UNCHANGED err
       ELSE Throw("Not found Dependency Check installer")
    /\ UNCHANGED <<loc, fs, net, tool, task>>
    /\ Others

\* both tasks: the custom URL when one is given
UseCustomRepoUrl ==
    /\ pc = "resolveUrl"
    /\ UsesCustomRepoUrl(loc.customRepoUrl)
    /\ Enter("resolveUrl")
    /\ loc' = [loc EXCEPT !.installZipUrl = loc.customRepoUrl]
    /\ pc' = StepAfter("resolveUrl")
    /\ UNCHANGED <<fs, net, tool, task, err>>
    /\ Others

\* both tasks: getDependencyCheckDownloadUrl(dependencyCheckVersion)
ResolveRelease ==
    /\ pc = "resolveUrl"
    /\ ~UsesCustomRepoUrl(loc.customRepoUrl)
    /\ Enter("resolveUrl")
    /\ \E response \in Responses :
        LET r == getDependencyCheckDownloadUrl(loc.dependencyCheckVersion, response) IN
            /\ net' = [net EXCEPT !.metadataRequests = Append(@, r.request)]
            /\ IF r.threw # NoError
               THEN Throw(r.threw) /\ UNCHANGED loc
               ELSE /\ loc' = [loc EXCEPT !.installZipUrl = r.packageUrl]
                    /\ pc' = StepAfter("resolveUrl")
                    /\ UNCHANGED err
    /\ UNCHANGED <<fs, tool, task>>
    /\ Others

\* both tasks: cleanDirectory(localInstallPath, ['**', '!data', '!data/**'])
CleanInstallDirectory ==
    /\ pc = "clean"
    /\ Enter("clean")
    /\ fs' = cleanDirectory(fs, loc.localInstallPath, CleanPatterns)
    /\ pc' = StepAfter("clean")
    /\ UNCHANGED <<loc, net, tool, task, err>>
    /\ Others

\* downloadPackage, up to the loop: new URL(url) throws on a malformed URL
EnterDownloadPackage ==
    /\ pc = "download"
    /\ Enter("download")
    /\ IF IsValidUrl(loc.installZipUrl)
       THEN /\ loc' = [loc EXCEPT
                         !.installPackage =
                             resolve(WorkingDirectory, <<UrlBaseName(loc.installZipUrl)>>),
                         !.tmpError = "null",
                         !.downloadErrorRetries = DownloadErrorRetries]
            /\ pc' = "get"
            /\ UNCHANGED err
       ELSE Throw("Invalid URL") /\ UNCHANGED loc
    /\ UNCHANGED <<fs, net, tool, task>>
    /\ Others

\* the errors client.get throws
TransportErrors == {"ECONNRESET", "ETIMEDOUT"}

\* downloadPackage: one pass of the do-while loop, a GET and the loop test
DownloadAttempt ==
    /\ pc = "get"
    /\ \E outcome \in {"null"} \cup TransportErrors :
        LET retries == IF outcome = "null" THEN loc.downloadErrorRetries
                       ELSE loc.downloadErrorRetries - 1
        IN  /\ loc' = [loc EXCEPT !.tmpError = outcome, !.downloadErrorRetries = retries]
            /\ net' = [net EXCEPT
                         !.downloadRequests = Append(@, loc.installZipUrl),
                         !.lastDownloadError =
                             IF outcome = "null" THEN @ ELSE outcome]
            /\ IF RetryDownload(outcome, retries)
               THEN pc' = "get" /\ UNCHANGED err
               ELSE IF outcome # "null"
                    THEN Throw(outcome)
                    ELSE pc' = "save" /\ UNCHANGED err
    /\ UNCHANGED <<fs, tool, task, steps>>
    /\ Others

\* downloadPackage: the response piped into the file; the promise rejects
\* when the write stream reports an error
SaveDownload ==
    /\ pc = "save"
    /\ \E written \in BOOLEAN :
        IF written
        THEN /\ fs' = writeFile(fs, loc.installPackage, "zip")
             /\ pc' = "unzip"
             /\ UNCHANGED err
        ELSE Throw("write failed") /\ UNCHANGED fs
    /\ UNCHANGED <<loc, net, tool, task, steps>>
    /\ Others

\* unzipFileTo: the archive extracted into the working directory
ExtractArchive ==
    /\ pc = "unzip"
    /\ Enter("unzip")
    /\ \E archive \in Archives :
        /\ fs' = extractAllTo(fs, WorkingDirectory, archive)
        /\ loc' = [loc EXCEPT !.extractFailed = FALSE]
    /\ pc' = "removeZip"
    /\ UNCHANGED <<net, tool, task, err>>
    /\ Others

\* unzipFileTo with the caught error thrown again
ExtractFailsRaised ==
    /\ pc = "unzip"
    /\ Enter("unzip")
    /\ loc' = [loc EXCEPT !.extractFailed = TRUE]
    /\ Throw("Extracting failed")
    /\ UNCHANGED <<fs, net, tool, task>>
    /\ Others

\* unzipFileTo: the extraction throws, the error is logged and dropped
ExtractFails ==
    /\ pc = "unzip"
    /\ Enter("unzip")
    /\ loc' = [loc EXCEPT !.extractFailed = TRUE]
    /\ pc' = "removeZip"
    /\ UNCHANGED <<fs, net, tool, task, err>>
    /\ Others

\* unzipFromUrl: tl.rmRF(installZipPath); the install task ends here
RemoveArchive ==
    /\ pc = "removeZip"
    /\ Enter("removeZip")
    /\ fs' = rmRF(fs, loc.installPackage)
    /\ pc' = IF inp.variant = "data" THEN "scriptPath" ELSE "end"
    /\ UNCHANGED <<loc, net, tool, task, err>>
    /\ Others

Platforms == {"Windows", "Linux"}

\* getDependencyCheckScriptPath
ScriptPath(dependencyCheckDir, platform) ==
    resolve(dependencyCheckDir,
            <<"bin", IF platform = "Windows" THEN "dependency-check.bat"
                     ELSE "dependency-check.sh">>)

\* updateDependencyCheckData: the script located and the arguments built
LocateScript ==
    /\ pc = "scriptPath"
    /\ Enter("scriptPath")
    /\ \E platform \in Platforms :
        LET script == ScriptPath(loc.localInstallPath, platform) IN
            IF checkPath(fs, script)
            THEN /\ loc' = [loc EXCEPT !.scriptPath = script,
                                       !.args = getExecutableArguments(loc.options)]
                 /\ pc' = "smokeTest"
                 /\ UNCHANGED err
            ELSE Throw("Not found Dependency Check script") /\ UNCHANGED loc
    /\ UNCHANGED <<fs, net, tool, task>>
    /\ Others

ExitCodes == {0, 1}

\* the --version run made with ignoreReturnCode, as the update run is
SmokeTestIgnoresReturnCode ==
    /\ pc = "smokeTest"
    /\ Enter("smokeTest")
    /\ \E exitCode \in ExitCodes :
        tool' = Append(tool, [script |-> loc.scriptPath, args |-> <<CliVersion>>,
                              exitCode |-> exitCode])
    /\ pc' = "removeLock"
    /\ UNCHANGED <<loc, fs, net, task, err>>
    /\ Others

\* updateDependencyCheckData: the --version run; exec() rejects on a
\* non-zero exit code
SmokeTest ==
    /\ pc = "smokeTest"
    /\ Enter("smokeTest")
    /\ \E exitCode \in ExitCodes :
        /\ tool' = Append(tool, [script |-> loc.scriptPath, args |-> <<CliVersion>>,
                                 exitCode |-> exitCode])
        /\ IF exitCode # 0
           THEN Throw("The process failed with exit code 1")
           ELSE pc' = "removeLock" /\ UNCHANGED err
    /\ UNCHANGED <<loc, fs, net, task>>
    /\ Others

\* removeLockFile, called when no local installation is used: a lock file
\* that cannot be deleted is logged and left
RemoveLockFiles ==
    /\ pc = "removeLock"
    /\ Enter("removeLock")
    /\ IF ~loc.hasLocalInstallation
       THEN \E kept \in SUBSET findLockFiles(fs, loc.localInstallPath) :
                fs' = rmRFAll(fs, findLockFiles(fs, loc.localInstallPath) \ kept)
       ELSE UNCHANGED fs
    /\ pc' = "update"
    /\ UNCHANGED <<loc, net, tool, task, err>>
    /\ Others

\* runDependencyCheck: the update run, its exit code ignored; the tool may
\* rewrite its database
RunDependencyCheck ==
    /\ pc = "update"
    /\ Enter("update")
    /\ \E exitCode \in ExitCodes, written \in BOOLEAN :
        /\ tool' = Append(tool, [script |-> loc.scriptPath, args |-> loc.args,
                                 exitCode |-> exitCode])
        /\ fs' = IF written
                 THEN writeFile(fs, resolve(loc.localInstallPath, <<"data", "odc.mv.db">>),
                                "updated")
                 ELSE fs
    /\ pc' = "end"
    /\ UNCHANGED <<loc, net, task, err>>
    /\ Others

\* the catch block of run()
Catch ==
    /\ pc = "catch"
    /\ task' = [ result |-> "Failed", message |-> err,
                 setResultCalls |-> task.setResultCalls + 1 ]
    /\ pc' = "end"
    /\ UNCHANGED <<loc, fs, net, tool, err, steps>>
    /\ Others

\* the last statement of run()
Finish ==
    /\ pc = "end"
    /\ pc' = "done"
    /\ UNCHANGED <<loc, fs, net, tool, task, err, steps>>
    /\ Others

Next ==
    \/ ReadInputs
    \/ SetLogDirectory
    \/ SetExportDirectory
    \/ BuildOptions
    \/ ValidateVersion
    \/ CreateInstallDirectory
    \/ CheckInstallDirectory
    \/ CheckLocalInstallation
    \/ UseCustomRepoUrl
    \/ ResolveRelease
    \/ CleanInstallDirectory
    \/ EnterDownloadPackage
    \/ DownloadAttempt
    \/ SaveDownload
    \/ ExtractArchive
    \/ ExtractFails
    \/ RemoveArchive
    \/ LocateScript
    \/ SmokeTest
    \/ RemoveLockFiles
    \/ RunDependencyCheck
    \/ Catch
    \/ Finish

Spec == Init /\ [][Next]_vars

-----------------------------------------------------------------------------
(* SpecVersion: isVersionFormatValid applied to bounded inputs *)

InitVersion ==
    /\ call \in {[fn |-> "isVersionFormatValid", arg |-> v, done |-> FALSE,
                  result |-> FALSE] : v \in VersionInputs}
    /\ IdleBuilder
    /\ IdleRun

Validate ==
    /\ call.fn = "isVersionFormatValid"
    /\ ~call.done
    /\ call' = [call EXCEPT !.done = TRUE, !.result = isVersionFormatValid(call.arg)]
    /\ UNCHANGED <<builderVars, runVars>>

NextVersion == Validate

SpecVersion == InitVersion /\ [][NextVersion]_vars

-----------------------------------------------------------------------------
(* SpecResolve: getDependencyCheckDownloadUrl applied to bounded inputs *)

ResolveVersions ==
    { <<"l", "a", "t", "e", "s", "t">>,
      <<"L", "a", "t", "e", "s", "t">>,
      <<"L", "A", "T", "E", "S", "T">>,
      <<"d", ".", "d", ".", "d">>,
      <<"1", ".", "2", ".", "3">>,
      <<"1", "0", ".", "2", ".", "3">>,
      <<"l", "a", "t", "e", "s", "t", "s">> }

NoResolution == [request |-> <<>>, threw |-> NoError, packageUrl |-> <<>>]

InitResolve ==
    /\ call \in {[fn |-> "getDependencyCheckDownloadUrl",
                  arg |-> [version |-> v, response |-> r],
                  done |-> FALSE, result |-> NoResolution] :
                     v \in ResolveVersions, r \in Responses}
    /\ IdleBuilder
    /\ IdleRun

Resolve ==
    /\ call.fn = "getDependencyCheckDownloadUrl"
    /\ ~call.done
    /\ call' = [call EXCEPT
                  !.done = TRUE,
                  !.result = getDependencyCheckDownloadUrl(call.arg.version,
                                                          call.arg.response)]
    /\ UNCHANGED <<builderVars, runVars>>

NextResolve == Resolve

SpecResolve == InitResolve /\ [][NextResolve]_vars

-----------------------------------------------------------------------------
(* SpecBuilder: every sequence of setter calls followed by build() *)

ExportDirectoryValues == { <<>>, <<" ">>, <<"o">>, <<" ", "o", " ">> }
LogFilePathValues ==
    { <<"o", LogFileName>>, <<"a", DependencyCheckFolderName, LogFileName>> }

InitBuilder ==
    /\ IdleBuilder
    /\ IdleCall
    /\ IdleRun

CallSetExportDirectory ==
    \E value \in ExportDirectoryValues :
        /\ builder' = setExportDirectory(builder, value)
        /\ lastCall' = "setExportDirectory"
        /\ UNCHANGED <<built, callVars, runVars>>

CallSetIsVerboseEnabled ==
    \E value \in BOOLEAN :
        /\ builder' = setIsVerboseEnabled(builder, value)
        /\ lastCall' = "setIsVerboseEnabled"
        /\ UNCHANGED <<built, callVars, runVars>>

CallSetIsUpdateOnlyEnabled ==
    \E value \in BOOLEAN :
        /\ builder' = setIsUpdateOnlyEnabled(builder, value)
        /\ lastCall' = "setIsUpdateOnlyEnabled"
        /\ UNCHANGED <<built, callVars, runVars>>

CallSetLogFilePath ==
    \E value \in LogFilePathValues :
        /\ builder' = setLogFilePath(builder, value)
        /\ lastCall' = "setLogFilePath"
        /\ UNCHANGED <<built, callVars, runVars>>

CallBuild ==
    /\ built' = build(builder)
    /\ lastCall' = "build"
    /\ UNCHANGED <<builder, callVars, runVars>>

NextBuilder ==
    \/ CallSetExportDirectory
    \/ CallSetIsVerboseEnabled
    \/ CallSetIsUpdateOnlyEnabled
    \/ CallSetLogFilePath
    \/ CallBuild

SpecBuilder == InitBuilder /\ [][NextBuilder]_vars

-----------------------------------------------------------------------------
(* Vocabulary of the properties *)

InSteps(step) == \E i \in 1..Len(steps) : steps[i] = step

LastStep == IF steps = <<>> THEN "none" ELSE steps[Len(steps)]

\* the position of a step in the log, 0 when it was not entered
StepIndex(step) ==
    IF InSteps(step) THEN CHOOSE i \in 1..Len(steps) : steps[i] = step ELSE 0

NotBlank(token) == token # " "

\* an input as the caller means it: without the blanks around it
Given(raw) == SelectSeq(raw, NotBlank)

InstallPathUnset == Given(inp.localInstallPath) = <<"s">>

CustomUrlGiven == Given(inp.customRepoUrl) # <<>>

Attempts == Len(net.downloadRequests)

StagingDependencyCheck == <<"a", "dependency-check">>

WorkingDependencyCheck == <<"s", "dependency-check">>

-----------------------------------------------------------------------------
(* C1: isVersionFormatValid(version) is true exactly when version is         *)
(* 'latest' in any letter case or digit '.' digit '.' digit.                 *)

IsLatestAnyCase(s) == toLowerCase(s) = <<"l", "a", "t", "e", "s", "t">>

IsDigitTriple(s) ==
    /\ Len(s) = 5
    /\ s[1] \in Digits /\ s[3] \in Digits /\ s[5] \in Digits
    /\ s[2] = "." /\ s[4] = "."

C1_VersionFormatAsClaimed ==
    (call.fn = "isVersionFormatValid" /\ call.done) =>
        (call.result <=> (IsLatestAnyCase(call.arg) \/ IsDigitTriple(call.arg)))

-----------------------------------------------------------------------------
(* C2: downloadPackage makes its GET attempts one after another, stops at    *)
(* the first that does not throw and never makes more than 6; after 6        *)
(* failures nothing is saved and the last error is raised.  As claimed, an   *)
(* attempt that succeeds always ends with the artifact saved and no error.   *)

\* what holds of the loop whatever becomes of the write
C2_Loop ==
    /\ Attempts <= 6
    /\ pc = "get" =>
         /\ Attempts = 5 - loc.downloadErrorRetries
         /\ Attempts > 0 => loc.tmpError # "null"
    /\ pc = "save" =>
         /\ loc.tmpError = "null"
         /\ Attempts = (5 - loc.downloadErrorRetries) + 1
         /\ err = NoError
    /\ pc = "unzip" =>
         /\ exist(fs, loc.installPackage) /\ fs[loc.installPackage] = "zip"
         /\ err = NoError
    /\ InSteps("unzip") => Attempts = (5 - loc.downloadErrorRetries) + 1

\* downloadPackage has raised after 6 failed attempts
C2_Exhausted ==
    /\ loc.tmpError # "null"
    /\ Attempts = 6
    /\ err = net.lastDownloadError
    /\ err \in TransportErrors
    /\ ~exist(fs, loc.installPackage)

\* downloadPackage has raised inside or after its loop
C2_Raised == pc = "catch" /\ LastStep = "download" /\ loc.installPackage # <<>>

C2_DownloadRetryAsClaimed == C2_Loop /\ (C2_Raised => C2_Exhausted)

(* C2, amended: as claimed, but an attempt that succeeds ends with the       *)
(* artifact saved and no error only when the write stream finishes; when it  *)
(* reports an error that error is raised, no further GET is made and         *)
(* nothing is saved.                                                         *)
C2_DownloadRetry ==
    /\ C2_Loop
    /\ C2_Raised =>
         \/ C2_Exhausted
         \/ /\ loc.tmpError = "null"
            /\ Attempts = (5 - loc.downloadErrorRetries) + 1
            /\ err = "write failed"
            /\ ~exist(fs, loc.installPackage)

\* three failures, then the 4th attempt succeeds and the artifact is saved
C2_Witness ==
    /\ pc = "unzip"
    /\ Attempts = 4
    /\ net.lastDownloadError \in TransportErrors
    /\ exist(fs, loc.installPackage)

-----------------------------------------------------------------------------
(* C3: when a step of a run raises, no later step executes, the run is       *)
(* marked Failed exactly once with the message of that error and still       *)
(* reaches its end; a run in which no step raises is never marked Failed.    *)

C3_Marked ==
    /\ err # NoError => pc \in {"catch", "end", "done"}
    /\ (err # NoError /\ pc = "catch") => task = InitialTask
    /\ (err # NoError /\ pc \in {"end", "done"}) =>
         task = [result |-> "Failed", message |-> err, setResultCalls |-> 1]
    /\ err = NoError => task = InitialTask
    /\ pc # "done" => ENABLED Next

\* once a step has raised, nothing a step does happens any more
C3_NoLaterStep ==
    err # NoError =>
        /\ err' = err
        /\ steps' = steps
        /\ fs' = fs /\ net' = net /\ tool' = tool /\ loc' = loc

C3_FailFast == []C3_Marked /\ [][C3_NoLaterStep]_vars

\* the smoke test has raised and the run has ended marked Failed
C3_Witness ==
    /\ pc = "done"
    /\ LastStep = "smokeTest"
    /\ task.result = "Failed"
    /\ task.message = "The process failed with exit code 1"

-----------------------------------------------------------------------------
(* C4: with a custom source URL given and the install path not set, the URL  *)
(* handed to the downloader is that custom URL and the release API is never  *)
(* asked, whatever the version.                                              *)

C4_CustomUrlVerbatim ==
    (CustomUrlGiven /\ InstallPathUnset) =>
        /\ net.metadataRequests = <<>>
        /\ InSteps("download") => loc.installZipUrl = Given(inp.customRepoUrl)
        /\ \A i \in 1..Attempts : net.downloadRequests[i] = Given(inp.customRepoUrl)

\* a version other than latest, a custom URL, and a GET made
C4_Witness ==
    /\ CustomUrlGiven /\ InstallPathUnset
    /\ Given(inp.dependencyCheckVersion) = <<"d", ".", "d", ".", "d">>
    /\ Attempts >= 1

-----------------------------------------------------------------------------
(* C5: getDependencyCheckDownloadUrl(version) asks <releases>/latest when    *)
(* version is 'latest' in any letter case and <releases>/tags/v<version>     *)
(* otherwise, returns the browser_download_url of the first asset of type    *)
(* application/zip, and fails without a URL when there is none.              *)

C5_ReleaseLookup ==
    (call.fn = "getDependencyCheckDownloadUrl" /\ call.done) =>
        LET v == call.arg.version
            assets == call.arg.response.assets
            r == call.result
            Zip(i) == assets[i].content_type = "application/zip"
        IN  /\ r.request =
                   IF IsLatestAnyCase(v)
                   THEN ReleaseApi \o <<"/", "l", "a", "t", "e", "s", "t">>
                   ELSE ReleaseApi \o <<"/tags/v">> \o v
            /\ call.arg.response.kind = "release" =>
                   IF \E i \in 1..Len(assets) : Zip(i)
                   THEN /\ r.threw = NoError
                        /\ \E i \in 1..Len(assets) :
                               /\ Zip(i)
                               /\ \A j \in 1..(i - 1) : ~Zip(j)
                               /\ r.packageUrl = assets[i].browser_download_url
                   ELSE r.threw # NoError /\ r.packageUrl = <<>>

\* an asset of another type comes first, the zip asset after it is returned
C5_Witness ==
    /\ call.fn = "getDependencyCheckDownloadUrl" /\ call.done
    /\ call.arg.version = <<"L", "A", "T", "E", "S", "T">>
    /\ Len(call.arg.response.assets) = 2
    /\ call.arg.response.assets[1].content_type # "application/zip"
    /\ call.result.packageUrl = call.arg.response.assets[2].browser_download_url
    /\ call.result.threw = NoError

-----------------------------------------------------------------------------
(* C6: each of the three directory inputs (log directory, export directory,  *)
(* local install path) that equals the sources directory is replaced by      *)
(* <artifact-staging>/dependency-check; one that differs is used as given.   *)

C6_LogAndExport ==
    /\ InSteps("logDirectory") =>
         loc.logDirectory =
             IF Given(inp.logDirectory) = <<"s">> THEN StagingDependencyCheck
             ELSE Given(inp.logDirectory)
    /\ InSteps("exportDirectory") =>
         loc.exportDirectory =
             IF Given(inp.exportDirectory) = <<"s">> THEN StagingDependencyCheck
             ELSE Given(inp.exportDirectory)
    /\ InSteps("checkLocal") =>
         /\ ~InstallPathUnset
         /\ loc.localInstallPath = Given(inp.localInstallPath)

C6_DirectoryDefaultsAsClaimed ==
    /\ C6_LogAndExport
    /\ (inp.variant = "data" /\ InstallPathUnset /\ InSteps("installDirectory")) =>
         loc.localInstallPath = StagingDependencyCheck

(* C6, amended: the log directory and the export directory are replaced by   *)
(* <artifact-staging>/dependency-check, the local install path is replaced   *)
(* by <working directory>/dependency-check; one that differs from the        *)
(* sources directory is used as given.                                       *)
C6_DirectoryDefaults ==
    /\ C6_LogAndExport
    /\ (InstallPathUnset /\ InSteps("installDirectory")) =>
         loc.localInstallPath = WorkingDependencyCheck

\* the data task with none of the three set, past the three replacements
C6_Witness ==
    /\ inp.variant = "data"
    /\ inp.logDirectory = <<"s">> /\ inp.exportDirectory = <<"s">>
    /\ InstallPathUnset
    /\ pc = "resolveUrl"

-----------------------------------------------------------------------------
(* C7: in a run with the install path not set, every file under              *)
(* <install>/data that existed before the run exists with the same content   *)
(* after the run, and every other path of the prior installation is deleted  *)
(* by the prune step before the new archive is extracted.                    *)

UnderInstall(q) == Len(q) > 2 /\ SubSeq(q, 1, 2) = WorkingDependencyCheck

UnderData(q) == UnderInstall(q) /\ q[3] = "data"

\* the data of the prior installation is as it was
DataKept ==
    \A q \in DOMAIN fs0 : UnderData(q) => (q \in DOMAIN fs /\ fs[q] = fs0[q])

\* nothing else of the prior installation is left
RestPruned ==
    \A q \in DOMAIN fs0 : (UnderInstall(q) /\ ~UnderData(q)) => q \notin DOMAIN fs

C7_PruneKeepsData ==
    InstallPathUnset =>
        /\ pc \in {"download", "get", "save", "unzip"} => (DataKept /\ RestPruned)
        /\ InSteps("unzip") => StepIndex("clean") \in 1..(StepIndex("unzip") - 1)

C7_DataUntouchedAsClaimed ==
    /\ C7_PruneKeepsData
    /\ (InstallPathUnset /\ pc = "done" /\ InSteps("clean")) => DataKept

(* C7, amended: in a run with the install path not set that reaches the      *)
(* prune step, that step deletes every path of the prior installation        *)
(* except data and what is below it, and leaves every file under             *)
(* <install>/data with its content, before the new archive is downloaded     *)
(* and extracted; the later steps of the data task (the removal of *.lock    *)
(* files, the update run) may still delete or rewrite files under data.      *)
C7_PruneStep == C7_PruneKeepsData

\* a prior installation, just pruned
C7_Witness ==
    /\ InstallPathUnset
    /\ fs0 = PriorFileSystem
    /\ pc = "download"
    /\ exist(fs, <<"s", "dependency-check", "data", "odc.mv.db">>)
    /\ ~exist(fs, <<"s", "dependency-check", "bin">>)

-----------------------------------------------------------------------------
(* C8: build() returns options whose four fields equal the builder's         *)
(* same-named fields at the time of build.                                   *)

C8_BuildCopiesFieldsAsClaimed ==
    lastCall = "build" =>
        /\ built.exportDirectory = builder.exportDirectory
        /\ built.logFilePath = builder.logFilePath
        /\ built.isVerboseEnabled = builder.isVerboseEnabled
        /\ built.isUpdateOnlyEnabled = builder.isUpdateOnlyEnabled

-----------------------------------------------------------------------------
(* C9: in a run with the install path not set the steps occur in the order   *)
(* create the install directory, prune, resolve the download URL, download   *)
(* and extract, update; the prune step has completed before the release      *)
(* API is asked.                                                             *)

IsPrefixOf(s, t) == Len(s) <= Len(t) /\ SubSeq(t, 1, Len(s)) = s

\* the steps entered from the install directory step on
StepsOfBranch ==
    IF InSteps("installDirectory")
    THEN SubSeq(steps, StepIndex("installDirectory"), Len(steps))
    ELSE <<>>

UpdateSteps == <<"scriptPath", "smokeTest", "removeLock", "update">>

C9_OrderAsClaimed ==
    /\ IsPrefixOf(StepsOfBranch,
                  <<"installDirectory", "clean", "resolveUrl", "download",
                    "unzip", "removeZip">>
                      \o (IF inp.variant = "data" THEN UpdateSteps ELSE <<>>))
    /\ net.metadataRequests # <<>> => InSteps("clean")

(* C9, amended: the steps occur in the order install directory (created by   *)
(* the data task, checked by the install task), resolve the download URL,    *)
(* prune, download and extract, then (data task) the update step; the prune  *)
(* step starts only after the download URL has been resolved.                *)
C9_Order ==
    /\ IsPrefixOf(StepsOfBranch,
                  <<"installDirectory", "resolveUrl", "clean", "download",
                    "unzip", "removeZip">>
                      \o (IF inp.variant = "data" THEN UpdateSteps ELSE <<>>))
    /\ InSteps("clean") =>
         /\ loc.installZipUrl # <<>>
         /\ ~CustomUrlGiven => Len(net.metadataRequests) = 1

\* the data task has run through the update step after asking the release API
C9_Witness ==
    /\ inp.variant = "data"
    /\ pc = "done"
    /\ LastStep = "update"
    /\ Len(net.metadataRequests) = 1

-----------------------------------------------------------------------------
(* C10: in both tasks a run with the install path not set and a valid        *)
(* version creates ./dependency-check when it does not exist and goes on to  *)
(* resolve the URL: its absence never makes the run Failed.                  *)

C10_InstallDirectoryCreatedAsClaimed ==
    (InstallPathUnset /\ ~exist(fs0, WorkingDependencyCheck)
        /\ LastStep = "installDirectory") =>
            \/ pc = "resolveUrl" /\ exist(fs, WorkingDependencyCheck)
            \/ err = "mkdirP failed"

-----------------------------------------------------------------------------
(* C11: updateDependencyCheckData runs the script with --version first; the  *)
(* update run is made only after that smoke test has exited with 0 (a        *)
(* failing smoke test raises, and neither the lock removal nor the update    *)
(* run happens); the lock files are removed after the smoke test and before  *)
(* the update run, a lock file that cannot be deleted not preventing the     *)
(* update; the update run is made once, and its exit code, zero or not,      *)
(* does not mark the run Failed.                                             *)

TimesEntered(step) == Cardinality({i \in 1..Len(steps) : steps[i] = step})

LockFilesLeft == findLockFiles(fs, WorkingDependencyCheck)

C11_SmokeTestFirst ==
    /\ Len(tool) <= 2
    /\ tool # <<>> =>
         /\ tool[1].args = <<CliVersion>>
         /\ tool[1].script = loc.scriptPath
         /\ tool[1].exitCode # 0 =>
              /\ Len(tool) = 1
              /\ err # NoError
              /\ ~InSteps("removeLock") /\ ~InSteps("update")
              /\ pc = "done" => task.result = "Failed"
    /\ Len(tool) = 2 =>
         /\ tool[1].exitCode = 0
         /\ tool[2].script = loc.scriptPath
         /\ tool[2].args # <<>> /\ tool[2].args[1] = CliUpdateOnly

C11_LocksBetween ==
    /\ InSteps("removeLock") =>
         StepIndex("smokeTest") \in 1..(StepIndex("removeLock") - 1)
    /\ InSteps("update") =>
         StepIndex("removeLock") \in 1..(StepIndex("update") - 1)
    /\ LastStep = "removeLock" =>
         /\ pc = "update" /\ err = NoError
         /\ Len(tool) = 1
         /\ LockFilesLeft \subseteq findLockFiles(fs0, WorkingDependencyCheck)
    /\ (pc = "done" /\ InSteps("removeLock")) => InSteps("update")

C11_UpdateOnce ==
    /\ TimesEntered("smokeTest") <= 1 /\ TimesEntered("update") <= 1
    /\ InSteps("update") <=> Len(tool) = 2
    /\ Len(tool) = 2 =>
         /\ err = NoError
         /\ pc \in {"end", "done"}
         /\ task = InitialTask

C11_UpdateAfterSmokeTest ==
    /\ C11_SmokeTestFirst
    /\ C11_LocksBetween
    /\ C11_UpdateOnce

\* a lock file could not be deleted, the update run was still made, exited
\* with 1, and the run ended without being marked Failed
C11_Witness ==
    /\ pc = "done"
    /\ Len(tool) = 2
    /\ tool[1].exitCode = 0 /\ tool[2].exitCode = 1
    /\ LockFilesLeft # {}
    /\ task.result = "none"

-----------------------------------------------------------------------------
(* C12: an extraction failure is never raised to run(): whether the          *)
(* extraction of the downloaded archive succeeds or fails, unzipFromUrl      *)
(* returns normally, the archive file is deleted afterwards, and run() goes  *)
(* on with the same following step: the update step in the data task, the    *)
(* end without a Failed mark in the install task.                            *)

C12_ExtractionNeverRaised ==
    /\ LastStep = "unzip" => (pc = "removeZip" /\ err = NoError)
    /\ LastStep = "removeZip" =>
         /\ err = NoError
         /\ ~exist(fs, loc.installPackage)
         /\ IF inp.variant = "data"
            THEN pc = "scriptPath"
            ELSE pc \in {"end", "done"} /\ task = InitialTask
    /\ (InSteps("unzip") /\ pc \in {"end", "done"}) =>
         /\ InSteps("removeZip")
         /\ inp.variant = "data" => InSteps("scriptPath")
    /\ InSteps("scriptPath") =>
         SubSeq(steps, StepIndex("scriptPath") - 2, StepIndex("scriptPath"))
             = <<"unzip", "removeZip", "scriptPath">>

\* the extraction has failed, the archive is gone, and the install task has
\* ended without being marked Failed
C12_Witness ==
    /\ inp.variant = "install"
    /\ loc.extractFailed
    /\ pc = "done"
    /\ ~exist(fs, loc.installPackage)
    /\ task.result = "none"

-----------------------------------------------------------------------------
(* C13: in a run whose install path input differs from the sources           *)
(* directory, the given path is checked for existence and the run is marked  *)
(* Failed when it does not exist; the release API is not asked, nothing is   *)
(* pruned, downloaded or extracted, the script is not run, and nothing       *)
(* under the given path is created, modified or deleted.                     *)

GivenInstallPath == Given(inp.localInstallPath)

\* what lies at or below the given path is as it was before the run
GivenPathUntouched ==
    \A q \in DOMAIN fs \cup DOMAIN fs0 :
        IsPrefix(GivenInstallPath, q) =>
            (q \in DOMAIN fs /\ q \in DOMAIN fs0 /\ fs[q] = fs0[q])

C13_GivenPathCheckedAsClaimed ==
    ~InstallPathUnset =>
        /\ (pc = "done" /\ ~exist(fs0, GivenInstallPath)) => task.result = "Failed"
        /\ net.metadataRequests = <<>> /\ net.downloadRequests = <<>>
        /\ tool = <<>>
        /\ \A step \in {"installDirectory", "resolveUrl", "clean", "download",
                         "unzip", "removeZip"} : ~InSteps(step)
        /\ GivenPathUntouched

-----------------------------------------------------------------------------
(* C14: there is no rollback: in a run with the install path not set, when   *)
(* the download fails on all attempts or the downloaded file cannot be       *)
(* written, the run ends marked Failed with the install directory already    *)
(* pruned: every path of the prior installation outside data is gone and     *)
(* stays gone, no archive is extracted and the script is never run.          *)

\* all attempts of downloadPackage have failed
DownloadExhausted == LastStep = "download" /\ err \in TransportErrors

\* the response could not be written to the file
DownloadNotWritten == LastStep = "download" /\ err = "write failed"

C14_NoRollback ==
    (InstallPathUnset /\ (DownloadExhausted \/ DownloadNotWritten)) =>
        /\ pc \in {"catch", "end", "done"}
        /\ pc = "done" => (task.result = "Failed" /\ task.message = err)
        /\ InSteps("clean") /\ RestPruned
        /\ ~InSteps("unzip")
        /\ tool = <<>>
        /\ DownloadExhausted => Attempts = DownloadErrorRetries + 1

\* a prior installation, six failed attempts, the run ended Failed with the
\* scripts of the prior installation gone
C14_Witness ==
    /\ InstallPathUnset
    /\ fs0 = PriorFileSystem
    /\ DownloadExhausted
    /\ pc = "done"
    /\ task.result = "Failed"
    /\ ~exist(fs, <<"s", "dependency-check", "bin", "dependency-check.sh">>)
    /\ exist(fs, <<"s", "dependency-check", "data", "odc.mv.db">>)

====
